---- MODULE Spec2Model ----
(***************************************************************************)
(* Model of src/src/Ai-agent.ts: the session driver (main), the plan       *)
(* executor (executePlan), the runtime validator (runFileAndFixIfError)    *)
(* and the text helpers they use.                                          *)
(*                                                                         *)
(* A JavaScript string is modelled as a sequence of one-character strings, *)
(* so that trim, startsWith, includes, split and the regular expressions   *)
(* of the source are computed character by character.  A path is a         *)
(* sequence of segments (each a string in that representation); the root   *)
(* "/" is the empty sequence.                                              *)
(***************************************************************************)
EXTENDS Integers, Sequences, FiniteSets, TLC

VARIABLES pc, rawTask, confirm, task, attempt, state, plan, commands, idx, result,
          cwd, dirs, files, fullPath, planCalls, repairs, effects,
          rawCode, genCode, runs, lastRun

vars == <<pc, rawTask, confirm, task, attempt, state, plan, commands, idx, result,
          cwd, dirs, files, fullPath, planCalls, repairs, effects,
          rawCode, genCode, runs, lastRun>>

(***************************************************************************)
(* JavaScript string primitives                                            *)
(***************************************************************************)
\* String.prototype.trim: the white space characters that occur in the model
IsWhiteSpace(c) == c \in {" ", "\n", "\t", "\r"}

Min(S) == CHOOSE x \in S : \A y \in S : x <= y
Max(S) == CHOOSE x \in S : \A y \in S : x >= y

Trim(s) ==
  LET keep == {i \in 1..Len(s) : ~IsWhiteSpace(s[i])}
  IN  IF keep = {} THEN <<>> ELSE SubSeq(s, Min(keep), Max(keep))

StartsWith(s, p) == Len(s) >= Len(p) /\ SubSeq(s, 1, Len(p)) = p

EndsWith(s, p) == Len(s) >= Len(p) /\ SubSeq(s, Len(s) - Len(p) + 1, Len(s)) = p

Includes(s, p) ==
  \E i \in 1..(Len(s) - Len(p) + 1) : SubSeq(s, i, i + Len(p) - 1) = p

UpperToLower ==
  [c \in {"A","B","C","D","E","F","G","H","I","J","K","L","M",
          "N","O","P","Q","R","S","T","U","V","W","X","Y","Z"} |->
     CASE c = "A" -> "a" [] c = "B" -> "b" [] c = "C" -> "c" [] c = "D" -> "d"
       [] c = "E" -> "e" [] c = "F" -> "f" [] c = "G" -> "g" [] c = "H" -> "h"
       [] c = "I" -> "i" [] c = "J" -> "j" [] c = "K" -> "k" [] c = "L" -> "l"
       [] c = "M" -> "m" [] c = "N" -> "n" [] c = "O" -> "o" [] c = "P" -> "p"
       [] c = "Q" -> "q" [] c = "R" -> "r" [] c = "S" -> "s" [] c = "T" -> "t"
       [] c = "U" -> "u" [] c = "V" -> "v" [] c = "W" -> "w" [] c = "X" -> "x"
       [] c = "Y" -> "y" [] c = "Z" -> "z"]

ToLowerCase(s) ==
  [i \in 1..Len(s) |-> IF s[i] \in DOMAIN UpperToLower THEN UpperToLower[s[i]] ELSE s[i]]

IsLetter(c) == ToLowerCase(<<c>>)[1] \in
  {"a","b","c","d","e","f","g","h","i","j","k","l","m",
   "n","o","p","q","r","s","t","u","v","w","x","y","z"}

\* String.prototype.split with a one-character separator
RECURSIVE Split(_, _)
Split(s, sep) ==
  LET hits == {i \in 1..Len(s) : s[i] = sep}
  IN  IF hits = {} THEN <<s>>
      ELSE <<SubSeq(s, 1, Min(hits) - 1)>> \o Split(SubSeq(s, Min(hits) + 1, Len(s)), sep)

Last(q) == q[Len(q)]

(***************************************************************************)
(* stripCodeFences                                                         *)
(***************************************************************************)
\* the character U+0060 is written "bq": a TLA+ string cannot hold it
Fence == <<"bq", "bq", "bq">>

\* code.replace(/^```[a-z]*\n?/i, ""): the opener, a greedy run of letters and
\* one optional newline are removed from the start of the text
StripOpener(code) ==
  IF ~StartsWith(code, Fence) THEN code
  ELSE LET stop   == {i \in 4..Len(code) : ~IsLetter(code[i])}
           tagEnd == IF stop = {} THEN Len(code) ELSE Min(stop) - 1
           cut    == IF tagEnd < Len(code) /\ code[tagEnd + 1] = "\n"
                       THEN tagEnd + 1 ELSE tagEnd
       IN  SubSeq(code, cut + 1, Len(code))

\* .replace(/```$/, ""): a fence that ends the text is removed
StripCloser(code) ==
  IF EndsWith(code, Fence) THEN SubSeq(code, 1, Len(code) - 3) ELSE code

stripCodeFences(code) == Trim(StripCloser(StripOpener(code)))

(***************************************************************************)
(* Command classification (isFileCreationCommand and the tests that        *)
(* executePlan applies to each line)                                       *)
(***************************************************************************)
LongRunningCommands ==
  { <<"n", "p", "m", " ", "r", "u", "n", " ", "d", "e", "v">>,
    <<"y", "a", "r", "n", " ", "d", "e", "v">>,
    <<"p", "n", "p", "m", " ", "d", "e", "v">> }

\* mutant: the deny-list is matched against the start of the line only
isLongRunningCommandPrefixOnly(cmd) ==
  \E longCmd \in LongRunningCommands : StartsWith(cmd, longCmd)

isLongRunningCommand(cmd) ==
  \E longCmd \in LongRunningCommands : Includes(cmd, longCmd)

\* !cmd || cmd.startsWith("#") || cmd.startsWith("```") || cmd.toLowerCase() === "bash"
IsSkippedLine(cmd) ==
  \/ cmd = <<>>
  \/ StartsWith(cmd, <<"#">>)
  \/ StartsWith(cmd, Fence)
  \/ ToLowerCase(cmd) = <<"b", "a", "s", "h">>

FileExtensions ==
  { <<"j", "s">>, <<"t", "s">>, <<"j", "s", "o", "n">>, <<"j", "s", "x">>,
    <<"t", "s", "x">>, <<"p", "y">>, <<"s", "h">>, <<"h", "t", "m", "l">>,
    <<"c", "s", "s">> }

isFileCreationCommand(cmd) ==
  \/ \E ext \in FileExtensions : EndsWith(cmd, <<".">> \o ext)
  \/ Includes(cmd, <<"t", "o", "u", "c", "h">>)
  \/ Includes(cmd, <<">">>)

IsDirectoryChange(cmd) == StartsWith(cmd, <<"c", "d", " ">>)

\* mutant: the target is not trimmed
CdTargetUntrimmed(cmd) == SubSeq(cmd, 4, Len(cmd))

\* cmd.slice(3).trim()
CdTarget(cmd) == Trim(SubSeq(cmd, 4, Len(cmd)))

\* cmd.split(" ").pop()
FileTarget(cmd) == Last(Split(cmd, " "))

\* the first half of executePlan: the candidate commands of a plan
IsCandidate(cmd) == ~IsSkippedLine(cmd) /\ ~isLongRunningCommand(cmd)

ParseCommands(planText) ==
  LET lines   == Split(planText, "\n")
      trimmed == [i \in 1..Len(lines) |-> Trim(lines[i])]
  IN  SelectSeq(trimmed, IsCandidate)

(***************************************************************************)
(* Paths and the file system                                               *)
(***************************************************************************)
RECURSIVE Walk(_, _)
Walk(acc, segs) ==
  IF segs = <<>> THEN acc
  ELSE LET seg == Head(segs)
       IN  IF seg = <<>> \/ seg = <<".">> THEN Walk(acc, Tail(segs))
           ELSE IF seg = <<".", ".">>
                  THEN Walk(IF acc = <<>> THEN <<>> ELSE SubSeq(acc, 1, Len(acc) - 1),
                            Tail(segs))
                  ELSE Walk(Append(acc, seg), Tail(segs))

\* path.resolve(base, target), base an absolute normalized path
PathResolve(base, target) ==
  Walk(IF StartsWith(target, <<"/">>) THEN <<>> ELSE base, Split(target, "/"))

\* path.dirname of an absolute normalized path
Dirname(p) == IF p = <<>> THEN <<>> ELSE SubSeq(p, 1, Len(p) - 1)

Prefixes(p) == {SubSeq(p, 1, k) : k \in 0..Len(p)}

\* fs.existsSync
ExistsSync(p, ds, fl) == p \in ds \/ p \in DOMAIN fl

\* fs.promises.mkdir(p, {recursive: true}) fails when a component is a file
MkdirFails(p, fl) == \E q \in Prefixes(p) : q \in DOMAIN fl

\* writeCodeToFile: mkdir of the parent, then writeFile (which fails on a directory)
WriteFails(p, ds, fl) == MkdirFails(Dirname(p), fl) \/ p \in ds

StartDir == << <<"w">> >>

NoPath == << <<>> >>

NoFiles == [p \in {} |-> <<>>]

(***************************************************************************)
(* Inputs: what the operator types and what the oracle answers             *)
(***************************************************************************)
TaskInputs == { <<"e", "x", "i", "t">>, <<"E", "X", "I", "T">>, <<"e", "X", "i", "t">>, <<"e", "x", "i", "t", "s">>, <<"g", "o">> }

Feedbacks == { <<"a">>, <<"b">> }

\* "```bash\nls\nnpm i\npwd\n```"
PlanFenced == <<"bq", "bq", "bq", "b", "a", "s", "h", "\n", "l", "s", "\n", "n", "p", "m", " ", "i", "\n", "p", "w", "d", "\n", "bq", "bq", "bq">>
\* "# setup\nBash\n\n  npm run dev  \ncd app && yarn dev\npnpm dev > o.js\nls\ncd a.ts"
PlanHygiene == <<"#", " ", "s", "e", "t", "u", "p", "\n", "B", "a", "s", "h", "\n", "\n", " ", " ", "n", "p", "m", " ", "r", "u", "n", " ", "d", "e", "v", " ", " ", "\n", "c", "d", " ", "a", "p", "p", " ", "&", "&", " ", "y", "a", "r", "n", " ", "d", "e", "v", "\n", "p", "n", "p", "m", " ", "d", "e", "v", " ", ">", " ", "o", ".", "j", "s", "\n", "l", "s", "\n", "c", "d", " ", "a", ".", "t", "s">>
\* "node index.js"
PlanNode == <<"n", "o", "d", "e", " ", "i", "n", "d", "e", "x", ".", "j", "s">>
\* "cd sub\ntouch app.py"
PlanCdTouch == <<"c", "d", " ", "s", "u", "b", "\n", "t", "o", "u", "c", "h", " ", "a", "p", "p", ".", "p", "y">>
\* "cd sub\ncd ..\ncd sub\ntouch a.js"
PlanCdBack == <<"c", "d", " ", "s", "u", "b", "\n", "c", "d", " ", ".", ".", "\n", "c", "d", " ", "s", "u", "b", "\n", "t", "o", "u", "c", "h", " ", "a", ".", "j", "s">>
\* "touch app.py\ncd app.py"
PlanCdIntoFile == <<"t", "o", "u", "c", "h", " ", "a", "p", "p", ".", "p", "y", "\n", "c", "d", " ", "a", "p", "p", ".", "p", "y">>
\* "cd  app.py/x \npwd\npwd"
PlanCdBelowFile == <<"c", "d", " ", " ", "a", "p", "p", ".", "p", "y", "/", "x", " ", "\n", "p", "w", "d", "\n", "p", "w", "d">>

PlanResponses ==
  { PlanFenced, PlanHygiene, PlanNode, PlanCdTouch, PlanCdBack, PlanCdIntoFile,
    PlanCdBelowFile }

\* "v1" and "```js\nv2\n```"
CodeResponses == { <<"v", "1">>, <<"bq", "bq", "bq", "j", "s", "\n", "v", "2", "\n", "bq", "bq", "bq">> }

\* the oracle call raised, or response.text is undefined
NoText == << "<no text>" >>

\* no artifact has been run yet
NoRun == [interpreter |-> "none", file |-> NoPath, cwd |-> NoPath, ok |-> TRUE]

MaxAttempts == 3

MaxRepairs == 2

(***************************************************************************)
(* The state machine                                                       *)
(***************************************************************************)
Init ==
  /\ pc = "prompt_task"
  /\ rawTask = <<>>
  /\ confirm = TRUE
  /\ task = <<>>
  /\ attempt = 0
  /\ state = [currentDir |-> StartDir, executedCommands |-> <<>>,
              projectRoot |-> "undefined"]
  /\ plan = <<>>
  /\ commands = <<>>
  /\ idx = 1
  /\ result = TRUE
  /\ cwd = StartDir
  /\ dirs = Prefixes(StartDir)
  /\ files = NoFiles
  /\ fullPath = NoPath
  /\ planCalls = 0
  /\ repairs = 0
  /\ effects = <<>>
  /\ rawCode = <<>>
  /\ genCode = <<>>
  /\ runs = 0
  /\ lastRun = NoRun

\* mutant: the sentinel is compared without lower-casing
IsExitInputCaseSensitive(input) == input = <<"e", "x", "i", "t">>

\* rawTask.toLowerCase() === "exit"
IsExitInput(input) == ToLowerCase(input) = <<"e", "x", "i", "t">>

\* main, lines 220-232
PromptTask ==
  /\ pc = "prompt_task"
  /\ \E input \in TaskInputs :
       /\ rawTask' = input
       /\ IF IsExitInput(input)
            THEN /\ pc' = "exited"
                 /\ UNCHANGED <<task, attempt>>
            ELSE /\ pc' = "plan"
                 /\ task' = input
                 /\ attempt' = 0
  /\ UNCHANGED <<confirm, state, plan, commands, idx, result, cwd, dirs,
                 files, fullPath, planCalls, repairs, effects,
                 rawCode, genCode, runs, lastRun>>

\* mutant: the loop test is off by one
CanPlanOffByOne(a) == a <= MaxAttempts

\* while (attempt < 3)
CanPlan(a) == a < MaxAttempts

\* main, lines 234-236, with getRefinedPlan
GetRefinedPlan ==
  /\ pc = "plan"
  /\ CanPlan(attempt)
  /\ planCalls' = planCalls + 1
  /\ \E response \in PlanResponses \cup {NoText} :
       IF response = NoText
         THEN pc' = "fatal" /\ UNCHANGED plan
         ELSE pc' = "confirm" /\ plan' = stripCodeFences(Trim(response))
  /\ UNCHANGED <<rawTask, confirm, task, attempt, state, commands, idx,
                 result, cwd, dirs, files, fullPath, repairs, effects,
                 rawCode, genCode, runs, lastRun>>

\* main, line 268
MaxAttemptsReached ==
  /\ pc = "plan"
  /\ ~CanPlan(attempt)
  /\ pc' = "max_attempts"
  /\ UNCHANGED <<rawTask, confirm, task, attempt, state, plan, commands, idx,
                 result, cwd, dirs, files, fullPath, planCalls, repairs,
                 effects,
                 rawCode, genCode, runs, lastRun>>

\* mutant: a declined plan is handled like a failed attempt
AfterConfirmDeclineRetries(answer) == IF answer THEN "exec" ELSE "feedback"

\* if (!confirm) return; otherwise executePlan is entered
AfterConfirm(answer) == IF answer THEN "exec" ELSE "aborted"

\* main, lines 238-250, and executePlan, lines 127-153
ConfirmPlan ==
  /\ pc = "confirm"
  /\ \E answer \in BOOLEAN :
       /\ confirm' = answer
       /\ pc' = AfterConfirm(answer)
       /\ IF ~answer
            THEN UNCHANGED <<commands, idx>>
            ELSE /\ commands' = ParseCommands(plan)
                 /\ idx' = 1
  /\ UNCHANGED <<rawTask, task, attempt, state, plan, result, cwd, dirs,
                 files, fullPath, planCalls, repairs, effects,
                 rawCode, genCode, runs, lastRun>>

\* mutant: the history is not consulted
AlreadyExecutedNever(st, cmd) == FALSE

\* mutant: only the most recent entry of the history is compared
AlreadyExecutedLastOnly(st, cmd) ==
  st.executedCommands # <<>> /\ Last(st.executedCommands) = cmd

\* state.executedCommands.includes(cmd)
AlreadyExecuted(st, cmd) ==
  \E i \in 1..Len(st.executedCommands) : st.executedCommands[i] = cmd

\* mutant: the command is recorded at the front of the history
PushFront(st, cmd) == [st EXCEPT !.executedCommands = <<cmd>> \o @]

\* mutant: the command is not recorded
PushNothing(st, cmd) == st

\* state.executedCommands.push(cmd)
Push(st, cmd) == [st EXCEPT !.executedCommands = Append(@, cmd)]

\* one record per side effect executePlan issues for a command: the subprocess
\* spawned ("spawn", in dir), the directory entered ("chdir", dir the resolved
\* target) or the generation call made ("generate", dir the resolved file);
\* from is state.currentDir when the command was reached, call the number of
\* the planning call whose plan is being executed
Effect(kind, cmd, dir, ok) ==
  [kind |-> kind, cmd |-> cmd, from |-> state.currentDir, dir |-> dir, ok |-> ok,
   call |-> planCalls]

\* executePlan, line 209
ExecReturn ==
  /\ pc = "exec"
  /\ idx > Len(commands)
  /\ result' = TRUE
  /\ pc' = "returned"
  /\ UNCHANGED <<rawTask, confirm, task, attempt, state, plan, commands, idx,
                 cwd, dirs, files, fullPath, planCalls, repairs, effects,
                 rawCode, genCode, runs, lastRun>>

\* executePlan, lines 156-159
ExecSkip ==
  /\ pc = "exec"
  /\ idx <= Len(commands)
  /\ AlreadyExecuted(state, commands[idx])
  /\ idx' = idx + 1
  /\ UNCHANGED <<rawTask, confirm, pc, task, attempt, state, plan, commands,
                 result, cwd, dirs, files, fullPath, planCalls, repairs,
                 effects,
                 rawCode, genCode, runs, lastRun>>

\* executePlan, lines 161-180
ExecCd ==
  /\ pc = "exec"
  /\ idx <= Len(commands)
  /\ ~AlreadyExecuted(state, commands[idx])
  /\ IsDirectoryChange(commands[idx])
  /\ LET cmd     == commands[idx]
         newPath == PathResolve(state.currentDir, CdTarget(cmd))
         made    == IF ExistsSync(newPath, dirs, files) THEN dirs
                    ELSE dirs \cup Prefixes(newPath)
     IN  IF ~ExistsSync(newPath, dirs, files) /\ MkdirFails(newPath, files)
           THEN \* mkdir threw: nothing was assigned yet
                /\ result' = FALSE
                /\ pc' = "returned"
                /\ effects' = Append(effects, Effect("chdir", cmd, newPath, FALSE))
                /\ UNCHANGED <<state, cwd, dirs, idx>>
           ELSE IF newPath \notin made
             THEN \* process.chdir threw after state.currentDir was assigned
                  /\ result' = FALSE
                  /\ pc' = "returned"
                  /\ state' = [state EXCEPT !.currentDir = newPath]
                  /\ effects' = Append(effects, Effect("chdir", cmd, newPath, FALSE))
                  /\ UNCHANGED <<cwd, dirs, idx>>
             ELSE /\ dirs' = made
                  /\ state' = Push([state EXCEPT !.currentDir = newPath], cmd)
                  /\ cwd' = newPath
                  /\ effects' = Append(effects, Effect("chdir", cmd, newPath, TRUE))
                  /\ idx' = idx + 1
                  /\ UNCHANGED <<pc, result>>
  /\ UNCHANGED <<rawTask, confirm, task, attempt, plan, commands, files,
                 fullPath, planCalls, repairs,
                 rawCode, genCode, runs, lastRun>>

\* mutant: an existing file is not overwritten
WriteFileKeepsExisting(fl, p, content) == fl @@ (p :> content)

\* fs.promises.writeFile(filePath, code): the file is replaced
WriteFile(fl, p, content) == (p :> content) @@ fl

\* executePlan, lines 182-186, with generateFileContent and writeCodeToFile
ExecFileCreation ==
  /\ pc = "exec"
  /\ idx <= Len(commands)
  /\ ~AlreadyExecuted(state, commands[idx])
  /\ ~IsDirectoryChange(commands[idx])
  /\ isFileCreationCommand(commands[idx])
  /\ LET cmd  == commands[idx]
         path == PathResolve(state.currentDir, FileTarget(cmd))
     IN  \E response \in CodeResponses \cup {NoText} :
           /\ effects' = Append(effects, Effect("generate", cmd, path, response # NoText))
           /\ IF response = NoText
                THEN UNCHANGED <<rawCode, genCode>>
                ELSE /\ rawCode' = Trim(response)
                     /\ genCode' = stripCodeFences(Trim(response))
           /\ IF response = NoText \/ WriteFails(path, dirs, files)
                THEN /\ pc' = "fatal"
                     /\ dirs' = IF response # NoText /\ ~MkdirFails(Dirname(path), files)
                                  THEN dirs \cup Prefixes(Dirname(path)) ELSE dirs
                     /\ UNCHANGED <<files, fullPath, repairs, runs>>
                ELSE /\ pc' = "run"
                     /\ dirs' = dirs \cup Prefixes(Dirname(path))
                     /\ files' = WriteFile(files, path, stripCodeFences(Trim(response)))
                     /\ fullPath' = path
                     /\ repairs' = 0
                     /\ runs' = 0
  /\ UNCHANGED <<rawTask, confirm, task, attempt, state, plan, commands, idx,
                 result, cwd, planCalls,
                 lastRun>>

\* execAsync(`node ${filePath}`): the program that runs the artifact
Interpreter(p) == "node"

\* mutant: the validator gives up after MaxRepairs repairs
AfterRunWithCeiling(ok, n) ==
  IF ok THEN "exec" ELSE IF n < MaxRepairs THEN "repair" ELSE "returned"

\* try: the call returns to executePlan; catch: the repair branch
AfterRun(ok, n) == IF ok THEN "exec" ELSE "repair"

\* runFileAndFixIfError, lines 67-71, and executePlan, lines 188-189
RunFile ==
  /\ pc = "run"
  /\ runs' = IF runs <= MaxRepairs THEN runs + 1 ELSE runs
  /\ \E ok \in BOOLEAN :
       /\ lastRun' = [interpreter |-> Interpreter(fullPath), file |-> fullPath,
                      cwd |-> cwd, ok |-> ok]
       /\ pc' = AfterRun(ok, repairs)
       /\ IF ok
            THEN /\ state' = Push(state, commands[idx])
                 /\ idx' = idx + 1
                 /\ fullPath' = NoPath
            ELSE UNCHANGED <<state, idx, fullPath>>
  /\ UNCHANGED repairs
  /\ UNCHANGED <<rawTask, confirm, task, attempt, plan, commands, result, cwd,
                 dirs, files, planCalls, effects,
                 rawCode, genCode>>

\* runFileAndFixIfError, lines 72-93
Repair ==
  /\ pc = "repair"
  /\ \E response \in CodeResponses \cup {NoText} :
       IF response = NoText
         THEN pc' = "fatal" /\ UNCHANGED <<files, repairs, rawCode, genCode>>
         ELSE /\ pc' = "run"
              /\ rawCode' = Trim(response)
              /\ genCode' = stripCodeFences(Trim(response))
              /\ files' = WriteFile(files, fullPath, stripCodeFences(Trim(response)))
              /\ repairs' = IF repairs < MaxRepairs THEN repairs + 1 ELSE repairs
  /\ UNCHANGED <<rawTask, confirm, task, attempt, state, plan, commands, idx,
                 result, cwd, dirs, fullPath, planCalls, effects,
                 lastRun, runs>>

\* mutant: the command is recorded before its exit status is known
AfterShellPushAlways(st, cmd, ok) == Push(st, cmd)

\* the state a generic shell command leaves: pushed on success only
AfterShell(st, cmd, ok) == IF ok THEN Push(st, cmd) ELSE st

\* executePlan, lines 192-206
ExecShell ==
  /\ pc = "exec"
  /\ idx <= Len(commands)
  /\ ~AlreadyExecuted(state, commands[idx])
  /\ ~IsDirectoryChange(commands[idx])
  /\ ~isFileCreationCommand(commands[idx])
  /\ \E ok \in BOOLEAN :
       \* the spawn fails when cwd: state.currentDir is not a directory
       /\ ok => state.currentDir \in dirs
       /\ effects' = Append(effects, Effect("spawn", commands[idx], state.currentDir, ok))
       /\ state' = AfterShell(state, commands[idx], ok)
       /\ IF ok
            THEN idx' = idx + 1 /\ UNCHANGED <<pc, result>>
            ELSE result' = FALSE /\ pc' = "returned" /\ UNCHANGED idx
  /\ UNCHANGED <<rawTask, confirm, task, attempt, plan, commands, cwd, dirs,
                 files, fullPath, planCalls, repairs,
                 rawCode, genCode, runs, lastRun>>

\* main, lines 251-258
HandleResult ==
  /\ pc = "returned"
  /\ IF result
       THEN pc' = "done" /\ UNCHANGED attempt
       ELSE pc' = "feedback" /\ attempt' = attempt + 1
  /\ commands' = <<>>
  /\ idx' = 1
  /\ UNCHANGED <<rawTask, confirm, task, state, plan, result, cwd, dirs,
                 files, fullPath, planCalls, repairs, effects,
                 rawCode, genCode, runs, lastRun>>

\* mutant: the feedback replaces the task
AppendFeedbackReplaces(t, feedback) == <<"\n", "E", "r", "r", "o", "r", ":", " ">> \o feedback

\* task += "\nError: " + feedback
AppendFeedback(t, feedback) == t \o <<"\n", "E", "r", "r", "o", "r", ":", " ">> \o feedback

\* main, lines 259-265
AskFeedback ==
  /\ pc = "feedback"
  /\ \E feedback \in Feedbacks : task' = AppendFeedback(task, feedback)
  /\ pc' = "plan"
  /\ UNCHANGED <<rawTask, confirm, attempt, state, plan, commands, idx,
                 result, cwd, dirs, files, fullPath, planCalls, repairs,
                 effects,
                 rawCode, genCode, runs, lastRun>>

Next ==
  \/ PromptTask
  \/ GetRefinedPlan
  \/ MaxAttemptsReached
  \/ ConfirmPlan
  \/ ExecReturn
  \/ ExecSkip
  \/ ExecCd
  \/ ExecFileCreation
  \/ RunFile
  \/ Repair
  \/ ExecShell
  \/ HandleResult
  \/ AskFeedback

Spec == Init /\ [][Next]_vars

(***************************************************************************)
(* stripCodeFences applied to arbitrary texts: the text the generation or  *)
(* repair oracle returns is not constrained by the program                 *)
(***************************************************************************)
MaxTextLen == 7

\* the characters the two patterns of stripCodeFences tell apart: the fence
\* character, a letter, the newline and a whitespace character
StripAlphabet == {"bq", "j", "\n", " "}

Texts == UNION {[1..n -> StripAlphabet] : n \in 0..MaxTextLen}

InitStrip ==
  /\ pc = "strip"
  /\ rawCode \in Texts
  /\ genCode = <<>>
  /\ rawTask = <<>>
  /\ confirm = TRUE
  /\ task = <<>>
  /\ attempt = 0
  /\ state = [currentDir |-> StartDir, executedCommands |-> <<>>,
              projectRoot |-> "undefined"]
  /\ plan = <<>>
  /\ commands = <<>>
  /\ idx = 1
  /\ result = TRUE
  /\ cwd = StartDir
  /\ dirs = Prefixes(StartDir)
  /\ files = NoFiles
  /\ fullPath = NoPath
  /\ planCalls = 0
  /\ repairs = 0
  /\ effects = <<>>
  /\ runs = 0
  /\ lastRun = NoRun

\* genCode = stripCodeFences(x)
StripOnce ==
  /\ pc = "strip"
  /\ genCode' = stripCodeFences(rawCode)
  /\ pc' = "stripped"
  /\ UNCHANGED <<rawTask, confirm, task, attempt, state, plan, commands, idx,
                 result, cwd, dirs, files, fullPath, planCalls, repairs,
                 effects, rawCode, runs, lastRun>>

\* the result is stripped again: rawCode keeps stripCodeFences(x) and genCode
\* becomes stripCodeFences(stripCodeFences(x))
StripTwice ==
  /\ pc = "stripped"
  /\ rawCode' = genCode
  /\ genCode' = stripCodeFences(genCode)
  /\ pc' = "restripped"
  /\ UNCHANGED <<rawTask, confirm, task, attempt, state, plan, commands, idx,
                 result, cwd, dirs, files, fullPath, planCalls, repairs,
                 effects, runs, lastRun>>

NextStrip ==
  \/ StripOnce
  \/ StripTwice

SpecStrip == InitStrip /\ [][NextStrip]_vars

(***************************************************************************)
(* Properties                                                              *)
(***************************************************************************)
InHistory(cmd) == \E i \in 1..Len(state.executedCommands) : state.executedCommands[i] = cmd

\* the commands whose side effect succeeded, in the order of the effects
RECURSIVE OkCmds(_)
OkCmds(es) ==
  IF es = <<>> THEN <<>>
  ELSE (IF Head(es).ok THEN <<Head(es).cmd>> ELSE <<>>) \o OkCmds(Tail(es))

FailedSpawn(e) == e.kind = "spawn" /\ ~e.ok

\* C1: a generic shell command that fails is the last command its plan
\* dispatches; executePlan then returns success=false, the failing command is
\* not in executedCommands, and executedCommands holds exactly the commands
\* that completed (so, in the call, those completed before the failing one).
C1_SequentialAbort ==
  /\ \A i \in 1..Len(effects) : FailedSpawn(effects[i]) =>
       \A j \in (i + 1)..Len(effects) : effects[j].call > effects[i].call
  /\ (effects # <<>> /\ FailedSpawn(Last(effects)) /\ Last(effects).call = planCalls) =>
       /\ pc \in {"returned", "feedback", "plan", "max_attempts"}
       /\ pc = "returned" => ~result
       /\ ~InHistory(Last(effects).cmd)
       /\ state.executedCommands = OkCmds(effects)

\* C1 witness: a three-command plan whose second command failed; only the first
\* is in executedCommands and the third was never dispatched
C1_Witness ==
  /\ pc = "returned" /\ ~result
  /\ commands = << <<"l", "s">>, <<"n", "p", "m", " ", "i">>, <<"p", "w", "d">> >>
  /\ Len(effects) = 2
  /\ effects[1].cmd = <<"l", "s">> /\ effects[1].ok
  /\ effects[2].cmd = <<"n", "p", "m", " ", "i">> /\ FailedSpawn(effects[2])
  /\ state.executedCommands = << <<"l", "s">> >>

\* C2: a candidate line that is already in executedCommands is skipped: the
\* step that passes it spawns nothing, changes no directory, calls no oracle,
\* and leaves executedCommands as it was.
C2_Deduplication ==
  [][(pc = "exec" /\ idx <= Len(commands) /\ InHistory(commands[idx])) =>
       /\ pc' = "exec" /\ idx' = idx + 1
       /\ effects' = effects
       /\ state' = state
       /\ <<cwd', dirs', files'>> = <<cwd, dirs, files>>]_vars

\* C2 witness: a line executed in an earlier attempt has just been skipped
C2_Witness ==
  /\ pc = "exec" /\ idx > 1
  /\ InHistory(commands[idx - 1])
  /\ \E i \in 1..Len(effects) :
       effects[i].cmd = commands[idx - 1] /\ effects[i].ok /\ effects[i].call < planCalls
  /\ \A i \in 1..Len(effects) :
       effects[i].call = planCalls => effects[i].cmd # commands[idx - 1]

\* C3 as stated: no command string is dispatched twice in a run
C3_AtMostOnceDispatch ==
  \A i, j \in 1..Len(effects) : i < j => effects[i].cmd # effects[j].cmd

\* C3 amended: a command string is dispatched again only after its earlier
\* dispatch failed, and then in a later attempt; so each command string
\* completes at most once and is dispatched at most once per attempt.
C3_RedispatchOnlyAfterFailure ==
  \A i, j \in 1..Len(effects) :
    (i < j /\ effects[i].cmd = effects[j].cmd) =>
      ~effects[i].ok /\ effects[i].call < effects[j].call

\* C3 witness: a command that failed in one attempt completed in a later one
C3_Witness ==
  \E i, j \in 1..Len(effects) :
    /\ i < j /\ effects[i].cmd = effects[j].cmd
    /\ ~effects[i].ok /\ effects[j].ok
    /\ InHistory(effects[j].cmd)

NumFailedCommands ==
  Cardinality({i \in 1..Len(effects) :
                 effects[i].kind \in {"spawn", "chdir"} /\ ~effects[i].ok})

\* C4: at most 3 planning calls are made; the attempt counter stays in 0..3 and
\* counts the failed executePlan calls; the run ends at "maximum attempts" after
\* exactly 3 planning calls and 3 failures.
C4_AttemptCeiling ==
  /\ attempt \in 0..3
  /\ planCalls \in 0..3
  /\ attempt = NumFailedCommands - (IF pc = "returned" /\ ~result THEN 1 ELSE 0)
  /\ pc \in {"confirm", "exec", "run", "repair", "returned"} => planCalls = attempt + 1
  /\ pc = "max_attempts" => attempt = 3 /\ planCalls = 3

\* C4 witness: the run ended after three failed attempts
C4_Witness == pc = "max_attempts" /\ planCalls = 3 /\ NumFailedCommands = 3

\* C5: once the operator has typed exit in any letter case the run is over:
\* no oracle call, no confirmation prompt, no command executed.
C5_ExitSentinel ==
  (pc # "prompt_task" /\ ToLowerCase(rawTask) = <<"e", "x", "i", "t">>) =>
    /\ pc = "exited"
    /\ planCalls = 0
    /\ plan = <<>> /\ commands = <<>>
    /\ effects = <<>>
    /\ state.executedCommands = <<>>

\* C5 witness: the run ended on a mixed-case exit
C5_Witness == pc = "exited" /\ rawTask = <<"e", "X", "i", "t">>

\* C6: the step in which the operator declines ends the run: the executor is
\* not entered, attempt, task, Execution State and the number of planning
\* calls are unchanged, and nothing happens afterwards.
C6_DeclineEndsRun ==
  [][/\ (pc = "confirm" /\ ~confirm') =>
          /\ pc' = "aborted"
          /\ <<attempt', task', state', planCalls'>> = <<attempt, task, state, planCalls>>
          /\ <<commands', effects', cwd', dirs', files'>> =
               <<commands, effects, cwd, dirs, files>>
     /\ ~confirm => FALSE]_vars

\* C6 witness: a plan of a later attempt was declined
C6_Witness == pc = "aborted" /\ ~confirm /\ attempt = 1 /\ planCalls = 2

HasDenyListed(cmd) ==
  \E longCmd \in { <<"n", "p", "m", " ", "r", "u", "n", " ", "d", "e", "v">>, <<"y", "a", "r", "n", " ", "d", "e", "v">>, <<"p", "n", "p", "m", " ", "d", "e", "v">> } : Includes(cmd, longCmd)

\* C7: no line containing npm run dev, yarn dev or pnpm dev is a candidate, is
\* dispatched, or is in executedCommands.
C7_DenyListNeverDispatched ==
  /\ \A i \in 1..Len(commands) : ~HasDenyListed(commands[i])
  /\ \A i \in 1..Len(effects) : ~HasDenyListed(effects[i].cmd)
  /\ \A i \in 1..Len(state.executedCommands) : ~HasDenyListed(state.executedCommands[i])

\* C7 witness: a plan holding all three deny-listed invocations ran to its end
C7_Witness ==
  /\ pc = "returned" /\ result
  /\ Includes(plan, <<"n", "p", "m", " ", "r", "u", "n", " ", "d", "e", "v">>)
  /\ Includes(plan, <<"c", "d", " ", "a", "p", "p", " ", "&", "&", " ", "y", "a", "r", "n", " ", "d", "e", "v">>)
  /\ Includes(plan, <<"p", "n", "p", "m", " ", "d", "e", "v", " ", ">", " ", "o", ".", "j", "s">>)
  /\ InHistory(<<"l", "s">>)

\* C8 as stated: "node index.js" is spawned verbatim in the current directory
\* and never handled as a file creation
C8_NodeIsShellCommand ==
  \A i \in 1..Len(effects) :
    effects[i].cmd = <<"n", "o", "d", "e", " ", "i", "n", "d", "e", "x", ".", "j", "s">> =>
      effects[i].kind = "spawn" /\ effects[i].dir = effects[i].from

IsNoise(cmd) ==
  \/ cmd = <<>>
  \/ cmd[1] = "#"
  \/ (Len(cmd) >= 3 /\ SubSeq(cmd, 1, 3) = <<"bq", "bq", "bq">>)
  \/ ToLowerCase(cmd) = <<"b", "a", "s", "h">>

\* C9: empty lines, comments, fence lines and the word bash are never
\* candidates, dispatched or recorded; a dispatched line starting with "cd " is
\* a directory change to its trimmed remainder resolved against the current
\* directory ("cd sub" enters from/sub), also when the line ends in a file
\* extension; "touch app.py" is a file creation of from/app.py.
C9_ClassifierTable ==
  /\ \A i \in 1..Len(commands) : ~IsNoise(commands[i])
  /\ \A i \in 1..Len(state.executedCommands) : ~IsNoise(state.executedCommands[i])
  /\ \A i \in 1..Len(effects) :
       LET e == effects[i] IN
       /\ ~IsNoise(e.cmd)
       /\ (Len(e.cmd) >= 3 /\ SubSeq(e.cmd, 1, 3) = <<"c", "d", " ">>) =>
            /\ e.kind = "chdir"
            /\ e.dir = PathResolve(e.from, Trim(SubSeq(e.cmd, 4, Len(e.cmd))))
       /\ e.cmd = <<"c", "d", " ", "s", "u", "b">> => e.dir = Append(e.from, <<"s", "u", "b">>)
       /\ e.cmd = <<"c", "d", " ", " ", "a", "p", "p", ".", "p", "y", "/", "x">> => e.dir = e.from \o << <<"a", "p", "p", ".", "p", "y">>, <<"x">> >>
       /\ e.cmd = <<"t", "o", "u", "c", "h", " ", "a", "p", "p", ".", "p", "y">> =>
            e.kind = "generate" /\ e.dir = Append(e.from, <<"a", "p", "p", ".", "p", "y">>)

\* C9 witness: a plan with noise lines was executed and its "cd a.ts" line, which
\* also ends in a file extension, entered the directory a.ts
C9_Witness ==
  /\ Includes(plan, <<"#", " ", "s", "e", "t", "u", "p", "\n", "B", "a", "s", "h", "\n", "\n">>)
  /\ \E i \in 1..Len(effects) :
       /\ effects[i].cmd = <<"c", "d", " ", "a", ".", "t", "s">>
       /\ effects[i].kind = "chdir" /\ effects[i].ok
       /\ cwd = Append(effects[i].from, <<"a", ".", "t", "s">>)

\* C10 as stated: whenever executePlan passes the line "cd sub" without
\* aborting, currentDirectory becomes D/sub (D the directory in which the line
\* was reached), D/sub exists, and a file creation that follows the line
\* resolves its relative target in a directory named sub
C10_CdSubEffect ==
  [][/\ (pc = "exec" /\ idx <= Len(commands) /\ commands[idx] = <<"c", "d", " ", "s", "u", "b">>
          /\ pc' = "exec" /\ idx' = idx + 1) =>
          /\ state'.currentDir = Append(state.currentDir, <<"s", "u", "b">>)
          /\ state'.currentDir \in dirs'
     /\ (pc = "exec" /\ pc' = "run" /\ idx > 1 /\ commands[idx - 1] = <<"c", "d", " ", "s", "u", "b">>
          /\ ~Includes(commands[idx], <<"/">>)) =>
          fullPath' = Append(Append(Dirname(Dirname(fullPath')), <<"s", "u", "b">>), Last(fullPath'))
    ]_vars

\* the file creation dispatched last has completed: its validator returned
ValidatorDone ==
  effects # <<>> /\ Last(effects).kind = "generate" /\ InHistory(Last(effects).cmd)

\* C11: inside the validator every run so far has failed (it returns at the
\* first successful run); a validator that returned after one repair made
\* exactly two runs, the second successful, and the file holds the repaired,
\* fence-stripped text; at every Run step the file holds the latest candidate.
C11_OneRepairCycle ==
  /\ pc = "run" =>
       /\ fullPath \in DOMAIN files
       /\ files[fullPath] = genCode /\ genCode = stripCodeFences(rawCode)
       /\ repairs < MaxRepairs => runs = repairs
  /\ (pc \in {"run", "repair"} /\ runs >= 1) => ~lastRun.ok /\ lastRun.file = fullPath
  /\ pc = "repair" /\ repairs < MaxRepairs => runs = repairs + 1
  /\ (ValidatorDone /\ repairs = 1) =>
       /\ runs = 2 /\ lastRun.ok
       /\ lastRun.file = Last(effects).dir
       /\ files[lastRun.file] = genCode /\ genCode = stripCodeFences(rawCode)

\* C11 witness: the validator returned after one repair; the file holds the
\* repaired text v2 without the fences the oracle wrapped it in
C11_Witness ==
  /\ ValidatorDone /\ repairs = 1 /\ runs = 2
  /\ rawCode = <<"bq", "bq", "bq", "j", "s", "\n", "v", "2", "\n", "bq", "bq", "bq">>
  /\ files[lastRun.file] = <<"v", "2">>

\* C12: fence stripping is idempotent: stripping the result of
\* stripCodeFences(x) again gives the same text, for every text x
C12_StripIdempotent == pc = "restripped" => genCode = rawCode

\* the prefix of every line main appends to the task
ErrorLine == <<"\n", "E", "r", "r", "o", "r", ":", " ">>

\* t0 followed by one Error line per feedback of fs, in the order of fs
RECURSIVE WithErrors(_, _)
WithErrors(t0, fs) ==
  IF fs = <<>> THEN t0 ELSE WithErrors(t0 \o ErrorLine \o Head(fs), Tail(fs))

\* the task is the operator's input followed by one Error line per failed
\* attempt; at the feedback prompt the line of the attempt just counted is
\* still to be appended; the k-th planning call (k calls made before it) is
\* made with attempt = k
TaskShape ==
  /\ pc \notin {"prompt_task", "exited", "strip", "stripped", "restripped"} =>
       LET k == IF pc = "feedback" THEN attempt - 1 ELSE attempt
       IN  \E fs \in [1..k -> Feedbacks] : task = WithErrors(rawTask, fs)
  /\ pc = "plan" => planCalls = attempt

C14_CurrentDirOnlyBySuccessfulCd ==
  [][state'.currentDir # state.currentDir =>
       /\ Len(effects') = Len(effects) + 1
       /\ Last(effects').kind = "chdir" /\ Last(effects').ok
       /\ pc' = "exec"
       /\ state'.executedCommands = Append(state.executedCommands, Last(effects').cmd)]_vars

\* C15: a generation oracle call that fails while a file creation is processed
\* is an attempt failure: the command is not appended, no later command is
\* dispatched and executePlan returns success=false to main, which counts the
\* attempt and asks for feedback
C15_GenerationFailureIsAttemptFailure ==
  [][(/\ pc = "exec"
      /\ Len(effects') = Len(effects) + 1
      /\ Last(effects').kind = "generate" /\ ~Last(effects').ok) =>
       /\ state' = state
       /\ pc' = "returned" /\ ~result']_vars

\* C16: the validator has no failure terminal and no retry ceiling: a run is
\* followed by the return to executePlan exactly when it succeeded and by a
\* repair otherwise, whatever the number of repairs made so far; a repair whose
\* oracle call returns text is followed by another run; no step of the
\* validator makes executePlan return success=false
C16_ValidatorHasNoFailureTerminal ==
  [][/\ pc = "run" =>
          /\ pc' \in {"exec", "repair"}
          /\ pc' = "exec" <=> lastRun'.ok
          /\ result' = result
     /\ pc = "repair" =>
          /\ pc' \in {"run", "fatal"}
          /\ rawCode' # rawCode => pc' = "run"
          /\ result' = result]_vars

\* C16 witness: after MaxRepairs repairs and MaxRepairs + 1 failed runs the
\* validator is in its repair branch once more
C16_Witness ==
  /\ pc = "repair" /\ ~lastRun.ok
  /\ repairs = MaxRepairs /\ runs = MaxRepairs + 1

\* C17: the artifact is run by the interpreter its extension implies: a .py or
\* .sh artifact is not run by the JavaScript runtime
C17_InterpreterByExtension ==
  (\/ EndsWith(Last(lastRun.file), <<".", "p", "y">>)
   \/ EndsWith(Last(lastRun.file), <<".", "s", "h">>)) => lastRun.interpreter # "node"

\* C18: commands are processed one at a time in plan order: during an
\* executePlan call every candidate before the current one is in
\* executedCommands (skipped as already there, or completed); every side effect
\* is that of the current candidate; executedCommands changes only by appending
\* the current candidate at the end, and the position then moves forward by one,
\* so the strings appended during a call are an in-order subsequence of the plan
C18_SequentialInOrder ==
  /\ [](pc \in {"exec", "run", "repair", "returned"} =>
          \A j \in 1..Len(commands) : j < idx => InHistory(commands[j]))
  /\ [][/\ effects' # effects =>
             /\ pc = "exec" /\ idx <= Len(commands)
             /\ effects' = Append(effects, Last(effects'))
             /\ Last(effects').cmd = commands[idx]
        /\ state'.executedCommands # state.executedCommands =>
             /\ pc \in {"exec", "run"} /\ idx <= Len(commands)
             /\ state'.executedCommands = Append(state.executedCommands, commands[idx])
             /\ idx' = idx + 1 /\ commands' = commands
        /\ (idx' # idx /\ pc \in {"exec", "run", "repair"}) =>
             idx' = idx + 1 /\ commands' = commands]_vars

\* C18 witness: a call that found an entry of an earlier attempt in
\* executedCommands appended two commands of its plan, in plan order
C18_Witness ==
  /\ pc = "returned" /\ planCalls = 2
  /\ Len(state.executedCommands) >= 3
  /\ \E i, j \in 1..Len(commands) :
       /\ i < j
       /\ commands[i] = state.executedCommands[Len(state.executedCommands) - 1]
       /\ commands[j] = state.executedCommands[Len(state.executedCommands)]
       /\ \E k \in 1..Len(effects) : effects[k].call = 2 /\ effects[k].cmd = commands[i]

\* C19: whenever executePlan returns success=true, every candidate line of the
\* plan is a member of executedCommands, and executedCommands holds no string
\* twice
C19_SuccessPostcondition ==
  (pc = "returned" /\ result) =>
    /\ \A i \in 1..Len(ParseCommands(plan)) : InHistory(ParseCommands(plan)[i])
    /\ \A i, j \in 1..Len(state.executedCommands) :
         state.executedCommands[i] = state.executedCommands[j] => i = j

\* C19 witness: a plan that lists one candidate twice returned success=true
C19_Witness ==
  /\ pc = "returned" /\ result
  /\ \E i, j \in 1..Len(commands) : i < j /\ commands[i] = commands[j]
  /\ Len(state.executedCommands) >= 2

\* C20: whenever a command is dispatched, in every plan and attempt of a run,
\* the working directory of the process equals state.currentDir, so the
\* artifact the validator runs and the shell commands execute in the same
\* directory
C20_CwdEqualsCurrentDir ==
  /\ (pc = "exec" /\ idx <= Len(commands) /\ ~AlreadyExecuted(state, commands[idx])) =>
       cwd = state.currentDir
  /\ pc \in {"run", "repair"} => cwd = state.currentDir

====
